---- MODULE Spec2Model ----
(***************************************************************************)
(* A model of src/main.py: the robots.txt parser, the sitemap parser, the  *)
(* sitemap-index resolver, the SEO analyser and the top-level script that  *)
(* chains them.                                                            *)
(*                                                                         *)
(* Representation.  Python strings are TLA+ strings; Python's None for a   *)
(* string-valued field is the value None below.  A dict-valued result      *)
(* (robots data, sitemap data) is a record with a `type` field, and None   *)
(* for such a result is the record whose type is "none".  A name that the  *)
(* script has not assigned yet is the record whose type is "unbound".      *)
(***************************************************************************)
EXTENDS Integers, Sequences, FiniteSets, TLC

VARIABLES
    pc,              \* position in the code being executed
    url_input,       \* the text typed in st.text_input (main.py:245)
    robots_content,  \* body of robots.txt: a sequence of lines, or absent
    robots_data,     \* result of parse_robots_txt (or unbound)
    current_ua,      \* parse_robots_txt: local current_ua
    line_no,         \* parse_robots_txt: index of the next line of the loop
    sitemap_urls,    \* the candidate list built at main.py:293-306
    probe_i,         \* index of the next candidate of the loop at main.py:310
    child_i,         \* get_all_sitemap_urls: index of the next child of the loop
    sitemap_content, \* the bytes last handed to parse_sitemap
    sitemap_data,    \* result of parse_sitemap
    requests,        \* every requests.get issued so far: <<url, response>>
    all_urls,        \* get_all_sitemap_urls: local all_urls, and its result
    analysis,        \* outcome of analyze_seo
    raised           \* the exception that ended the run, or None

vars == << pc, url_input, robots_content, robots_data, current_ua, line_no,
           sitemap_urls, probe_i, child_i, sitemap_content, sitemap_data, requests,
           all_urls, analysis, raised >>

None == "None"

(***************************************************************************)
(* Bounds of the model.                                                    *)
(***************************************************************************)
MaxLines == 4      \* lines of a robots.txt text in SpecRobots
MaxChildren == 2   \* child elements of a sitemap document in SpecSitemap
MaxUrls == 3       \* url entries of a sitemap in SpecAnalyze

(***************************************************************************)
(* Generic helpers over sequences.                                         *)
(***************************************************************************)
RECURSIVE SeqsUpTo(_, _)
SeqsUpTo(S, n) ==
    IF n = 0 THEN { <<>> }
    ELSE LET shorter == SeqsUpTo(S, n - 1)
         IN  shorter \cup { Append(s, x) : s \in { t \in shorter : Len(t) = n - 1 }, x \in S }

Range(s) == { s[i] : i \in 1..Len(s) }

RECURSIVE IsSubseq(_, _)
IsSubseq(s, t) ==
    IF s = <<>> THEN TRUE
    ELSE IF t = <<>> THEN FALSE
    ELSE IF Head(s) = Head(t) THEN IsSubseq(Tail(s), Tail(t))
    ELSE IsSubseq(s, Tail(t))

RECURSIVE Flatten(_)
Flatten(ss) == IF ss = <<>> THEN <<>> ELSE Head(ss) \o Flatten(Tail(ss))

(***************************************************************************)
(* parse_robots_txt (main.py:39-94).                                       *)
(*                                                                         *)
(* A line of the text is modelled after line.strip() and the prefix tests  *)
(* of lines 57-89 have classified it: kind is "blank" (empty after strip), *)
(* "comment" (starts with #), the lower-cased directive prefix that        *)
(* matched, or "other"; val is the text after the prefix, stripped.        *)
(***************************************************************************)
NoData == [type |-> "none"]
Unbound == [type |-> "unbound"]

NewRobotsData ==
    [ type |-> "robots",
      user_agents |-> << >>,   \* agent -> [disallow, allow]; << >> is the empty dict
      sitemaps |-> << >>,
      disallowed |-> << >>,
      allowed |-> << >>,
      crawl_delay |-> None,
      comments |-> << >> ]

HasAgent(data, ua) == ua \in DOMAIN data.user_agents

\* dict insertion: data['user_agents'][ua] = rules
PutAgent(data, ua, rules) ==
    [data EXCEPT !.user_agents =
        [a \in (DOMAIN data.user_agents) \cup {ua} |->
            IF a = ua THEN rules ELSE data.user_agents[a]]]

\* Lines 64-68: user-agent: sets current_ua and creates the entry if new.
UserAgentLine(st, val) ==
    [ ua |-> val,
      data |-> IF HasAgent(st.data, val) THEN st.data
               ELSE PutAgent(st.data, val, [disallow |-> << >>, allow |-> << >>]) ]

\* A faulty variant of DisallowLine: the guard of line 72 protects the
\* per-agent list only, and the flattened list takes every non-empty value.
DisallowLine_unguardedFlat(st, val) ==
    IF val = "" THEN st
    ELSE IF HasAgent(st.data, st.ua)
    THEN [st EXCEPT !.data = [PutAgent(st.data, st.ua,
                                 [st.data.user_agents[st.ua] EXCEPT !.disallow = Append(@, val)])
                              EXCEPT !.disallowed = Append(@, val)]]
    ELSE [st EXCEPT !.data.disallowed = Append(@, val)]

\* Lines 70-75: disallow: with a non-empty path and a known current agent.
DisallowLine(st, val) ==
    IF val # "" /\ HasAgent(st.data, st.ua)
    THEN [st EXCEPT !.data = [PutAgent(st.data, st.ua,
                                 [st.data.user_agents[st.ua] EXCEPT !.disallow = Append(@, val)])
                              EXCEPT !.disallowed = Append(@, val)]]
    ELSE st

\* Lines 77-82: allow: with a non-empty path and a known current agent.
AllowLine(st, val) ==
    IF val # "" /\ HasAgent(st.data, st.ua)
    THEN [st EXCEPT !.data = [PutAgent(st.data, st.ua,
                                 [st.data.user_agents[st.ua] EXCEPT !.allow = Append(@, val)])
                              EXCEPT !.allowed = Append(@, val)]]
    ELSE st

\* Lines 54-92: the body of the loop for one line; st = [ua, data].
RobotsLine(st, line) ==
    CASE line.kind = "blank"       -> st
      [] line.kind = "comment"     -> [st EXCEPT !.data.comments = Append(@, line.val)]
      [] line.kind = "user-agent"  -> UserAgentLine(st, line.val)
      [] line.kind = "disallow"    -> DisallowLine(st, line.val)
      [] line.kind = "allow"       -> AllowLine(st, line.val)
      [] line.kind = "sitemap"     -> [st EXCEPT !.data.sitemaps = Append(@, line.val)]
      [] line.kind = "crawl-delay" -> [st EXCEPT !.data.crawl_delay = line.val]
      [] OTHER                     -> st

RECURSIVE RobotsLoop(_, _)
RobotsLoop(st, lines) ==
    IF lines = << >> THEN st ELSE RobotsLoop(RobotsLine(st, Head(lines)), Tail(lines))

\* `if not content` for a text: None and "" are both falsy.  A text is a
\* record [kind, lines]; kind "text" is a non-empty string.
Absent == [kind |-> "none", lines |-> << >>]
EmptyText == [kind |-> "empty", lines |-> << >>]
Text(lines) == [kind |-> "text", lines |-> lines]

\* Lines 39-94 as a whole.
parse_robots_txt(content) ==
    IF content.kind # "text" THEN NoData
    ELSE RobotsLoop([ua |-> "*", data |-> NewRobotsData], content.lines).data

(***************************************************************************)
(* parse_sitemap (main.py:106-165).                                        *)
(*                                                                         *)
(* The bytes of a document are modelled by what the two XML parsers make   *)
(* of them:                                                                *)
(*   wf        ET.fromstring accepts the bytes (line 112)                  *)
(*   soup_ok   BeautifulSoup(content, 'xml') and the code of lines 115-137 *)
(*             run without an exception (else lines 138-140)               *)
(*   root      the tag of the document element                             *)
(*   ns        the elements are in the namespace                           *)
(*             http://www.sitemaps.org/schemas/sitemap/0.9 (line 144)      *)
(*   children  the child elements of the root, in document order; each is  *)
(*             a url or a sitemap element with the text of its loc,        *)
(*             lastmod, changefreq and priority children: Missing when the *)
(*             child element is not there, "" when it is there and empty.  *)
(***************************************************************************)
Missing == "<missing>"

NoBytes == [kind |-> "none", wf |-> FALSE, soup_ok |-> FALSE, root |-> "", ns |-> FALSE,
            children |-> << >>]
EmptyBytes == [NoBytes EXCEPT !.kind = "empty"]
Xml(wf, soup_ok, root, ns, children) ==
    [kind |-> "xml", wf |-> wf, soup_ok |-> soup_ok, root |-> root, ns |-> ns,
     children |-> children]

Element(tag, loc, lastmod, changefreq, priority) ==
    [tag |-> tag, loc |-> loc, lastmod |-> lastmod, changefreq |-> changefreq,
     priority |-> priority]

\* `if content:` on bytes (lines 107, 175, 312): None and b'' are falsy.
Truthy(content) == content.kind = "xml"

\* Lines 149-152: x.find('ns:f', namespace).text if ... is not None else None.
\* ElementTree gives None as the text of an empty element.
ETText(f) == IF f = Missing \/ f = "" THEN None ELSE f

\* Lines 127-130: x.find('f').text if x.find('f') else None.  A bs4 Tag is
\* truthy whenever it is found, and the text of an empty element is ''.
SoupText(f) == IF f = Missing THEN None ELSE f

RECURSIVE SelectSeq2(_, _)
\* SelectSeq for a test given as a set of accepted tags.
SelectSeq2(s, tags) ==
    IF s = << >> THEN << >>
    ELSE IF Head(s).tag \in tags THEN << Head(s) >> \o SelectSeq2(Tail(s), tags)
    ELSE SelectSeq2(Tail(s), tags)

\* Lines 145-154: root.findall('ns:url', namespace) and the four fields.
ETUrls(content) ==
    IF ~content.ns THEN << >>
    ELSE LET found == SelectSeq2(content.children, {"url"})
         IN  [i \in 1..Len(found) |->
                [loc |-> ETText(found[i].loc), lastmod |-> ETText(found[i].lastmod),
                 changefreq |-> ETText(found[i].changefreq),
                 priority |-> ETText(found[i].priority)]]

\* Lines 124-132: soup.find_all('url') and the four fields.
SoupUrls(content) ==
    LET found == SelectSeq2(content.children, {"url"})
    IN  [i \in 1..Len(found) |->
           [loc |-> SoupText(found[i].loc), lastmod |-> SoupText(found[i].lastmod),
            changefreq |-> SoupText(found[i].changefreq),
            priority |-> SoupText(found[i].priority)]]

RECURSIVE LocTexts(_)
\* Line 117: [loc.text for loc in soup.find_all('loc')], every loc of the document.
LocTexts(children) ==
    IF children = << >> THEN << >>
    ELSE (IF Head(children).loc = Missing THEN << >> ELSE << Head(children).loc >>)
         \o LocTexts(Tail(children))

\* original_url or 'Direct' (lines 121, 136, 160).
SourceOf(original_url) ==
    IF original_url = None \/ original_url = "" THEN "Direct" ELSE original_url

Regular(urls, original_url) ==
    [type |-> "regular", urls |-> urls, source |-> SourceOf(original_url)]
Index(sitemaps, original_url) ==
    [type |-> "index", sitemaps |-> sitemaps, source |-> SourceOf(original_url)]

\* Lines 142-165: the strict branch, reached with root bound.
StrictParse(content, original_url) ==
    LET urls == ETUrls(content)
    IN  IF urls # << >> THEN Regular(urls, original_url) ELSE NoData

\* Lines 113-140: the handler of ET.ParseError.  When the soup holds neither
\* a sitemapindex nor a urlset the try block ends without a return, control
\* reaches line 147 with `root` unassigned, the NameError is swallowed by the
\* bare except of line 162 and line 165 returns None.
TolerantParse(content, original_url) ==
    IF ~content.soup_ok THEN NoData
    ELSE IF content.root = "sitemapindex"
    THEN Index(LocTexts(content.children), original_url)
    ELSE IF content.root = "urlset"
    THEN Regular(SoupUrls(content), original_url)
    ELSE NoData

\* Lines 106-165 as a whole.
parse_sitemap(content, original_url) ==
    IF ~Truthy(content) THEN NoData
    ELSE IF ~content.wf THEN TolerantParse(content, original_url)
    ELSE StrictParse(content, original_url)

(***************************************************************************)
(* fetch_sitemap (main.py:96-104) and get_all_sitemap_urls (167-180).      *)
(*                                                                         *)
(* What requests.get does is the network's choice: it raises, or it        *)
(* returns a response with a status code and a body.                       *)
(***************************************************************************)
Raises == [outcome |-> "exception", status |-> 0, body |-> NoBytes]
Response(status, body) == [outcome |-> "response", status |-> status, body |-> body]

\* Lines 97-104: the body on status 200, None on any other status or exception.
fetch_sitemap(resp) ==
    IF resp.outcome = "response" /\ resp.status = 200 THEN resp.body ELSE NoBytes

\* A faulty variant of ChildUrls: the test `parsed['type'] == 'regular'` of
\* line 177 is left out, so an index child adds its child locations as entries.
ChildUrls_anyType(sitemap_url, resp) ==
    LET content == fetch_sitemap(resp)
        parsed == parse_sitemap(content, sitemap_url)
    IN  IF ~Truthy(content) THEN << >>
        ELSE IF parsed.type = "regular" THEN parsed.urls
        ELSE IF parsed.type = "index"
        THEN [i \in 1..Len(parsed.sitemaps) |->
                [loc |-> parsed.sitemaps[i], lastmod |-> None, changefreq |-> None,
                 priority |-> None]]
        ELSE << >>

\* Lines 174-178: what one child adds to all_urls, given the network's answer.
ChildUrls(sitemap_url, resp) ==
    LET content == fetch_sitemap(resp)
        parsed == parse_sitemap(content, sitemap_url)
    IN  IF Truthy(content) /\ parsed.type = "regular" THEN parsed.urls ELSE << >>

\* Lines 167-180 as a whole; resps[i] is the network's answer for child i.
get_all_sitemap_urls(data, resps) ==
    IF data.type = "regular" THEN data.urls
    ELSE IF data.type = "index"
    THEN Flatten([i \in 1..Len(data.sitemaps) |-> ChildUrls(data.sitemaps[i], resps[i])])
    ELSE << >>

\* The requests that get_all_sitemap_urls issues: one per child of an index.
ResolveRequests(data, resps) ==
    IF data.type = "index"
    THEN [i \in 1..Len(data.sitemaps) |-> << data.sitemaps[i], resps[i] >>]
    ELSE << >>

(***************************************************************************)
(* analyze_seo (main.py:182-242).                                          *)
(*                                                                         *)
(* An insight, warning or recommendation is the record of the values that  *)
(* its f-string formats: kind names the message, n the number, s and t the *)
(* strings.                                                                *)
(***************************************************************************)
Msg(kind, n, s, t) == [kind |-> kind, n |-> n, s |-> s, t |-> t]

\* `path in disallowed` (line 190) for the paths of the model: the important
\* paths that occur as a substring of a disallowed value.
MarkersIn(disallowed) ==
    CASE disallowed = "/css/"            -> { "/css/" }
      [] disallowed = "/assets/private/" -> { "/assets/" }
      [] disallowed = "/js/app/img/"     -> { "/js/", "/img/" }
      [] OTHER                           -> { }

important_paths == << "/css/", "/js/", "/img/", "/assets/" >>

\* Lines 187-199.
RobotsWarnings(rd) ==
    LET hit(i) == \E k \in 1..Len(rd.disallowed) : important_paths[i] \in MarkersIn(rd.disallowed[k])
    IN  Flatten([i \in 1..Len(important_paths) |->
                    IF hit(i) THEN << Msg("blocked_asset", 0, important_paths[i], "") >> ELSE << >>])

RobotsRecommendations(rd) ==
    IF rd.sitemaps = << >> THEN << Msg("add_sitemap_directive", 0, "", "") >> ELSE << >>

RobotsInsights(rd) ==
    (IF rd.sitemaps = << >> THEN << >> ELSE << Msg("sitemaps_found", Len(rd.sitemaps), "", "") >>)
    \o (IF rd.crawl_delay # None /\ rd.crawl_delay # ""
        THEN << Msg("crawl_delay", 0, rd.crawl_delay, "") >> ELSE << >>)

\* float(s) for the strings of the model, in hundredths; a string outside
\* the table makes float raise ValueError.
FloatTable ==
    [s \in { "0.8", "0.4", "0.40" } |-> CASE s = "0.8" -> 80 [] s = "0.4" -> 40 [] s = "0.40" -> 40]

RECURSIVE SumSeq(_)
SumSeq(s) == IF s = << >> THEN 0 ELSE Head(s) + SumSeq(Tail(s))

RECURSIVE Keep(_, _)
\* [x for x in s if x], for a sequence of strings, restricted to `ok`.
Keep(s, ok) ==
    IF s = << >> THEN << >>
    ELSE (IF Head(s) \in ok THEN << Head(s) >> ELSE << >>) \o Keep(Tail(s), ok)

Field(urls, f) == [i \in 1..Len(urls) |-> urls[i][f]]
TruthyOf(strs) == Keep(strs, Range(strs) \ { None, "" })

\* f"{x:.2f}" of sum/len, the sum given in hundredths: rounded to the nearest
\* hundredth.
Mean2f(values) == (2 * SumSeq(values) + Len(values)) \div (2 * Len(values))

\* Lines 206 and 237: [float(url['priority']) for url in urls if url['priority']].
PriorityStats(urls) ==
    LET given == TruthyOf(Field(urls, "priority"))
    IN  IF \E i \in 1..Len(given) : given[i] \notin DOMAIN FloatTable
        THEN [ raised |-> "ValueError", values |-> << >> ]
        ELSE [ raised |-> None,
               values |-> [i \in 1..Len(given) |-> FloatTable[given[i]]] ]

\* datetime.strptime(d, '%Y-%m-%d') for the strings of the model; a string
\* outside the table makes strptime raise ValueError.
DateTable ==
    [s \in { "2023-01-10", "2023-03-01", "2023-1-5" } |->
        CASE s = "2023-01-10" -> << 2023, 1, 10 >>
          [] s = "2023-03-01" -> << 2023, 3, 1 >>
          [] s = "2023-1-5"   -> << 2023, 1, 5 >>]

Pad2(n) == IF n < 10 THEN "0" \o ToString(n) ELSE ToString(n)
\* d.strftime('%Y-%m-%d')
strftime(d) == ToString(d[1]) \o "-" \o Pad2(d[2]) \o "-" \o Pad2(d[3])
Ordinal(d) == d[1] * 10000 + d[2] * 100 + d[3]

MinDate(ds) == CHOOSE d \in Range(ds) : \A e \in Range(ds) : Ordinal(d) <= Ordinal(e)
MaxDate(ds) == CHOOSE d \in Range(ds) : \A e \in Range(ds) : Ordinal(d) >= Ordinal(e)

\* Lines 211-219: one unparsable date raises inside the try and the bare
\* except drops the whole insight.
LastmodInsights(urls) ==
    LET lastmod_dates == TruthyOf(Field(urls, "lastmod"))
        dates == [i \in 1..Len(lastmod_dates) |-> DateTable[lastmod_dates[i]]]
    IN  IF lastmod_dates = << >> THEN << >>
        ELSE IF \E i \in 1..Len(lastmod_dates) : lastmod_dates[i] \notin DOMAIN DateTable
        THEN << >>
        ELSE << Msg("lastmod_range", 0, strftime(MinDate(dates)), strftime(MaxDate(dates))) >>

Count(v, s) == Cardinality({ i \in 1..Len(s) : s[i] = v })
FirstIndex(v, s) == CHOOSE i \in 1..Len(s) : s[i] = v /\ \A j \in 1..(i - 1) : s[j] # v

RECURSIVE ByCount(_, _)
\* pd.Series(s).value_counts(): the distinct values by descending count,
\* equal counts in order of first occurrence.
ByCount(vals, s) ==
    IF vals = { } THEN << >>
    ELSE LET top == CHOOSE v \in vals : \A w \in vals \ { v } :
                        \/ Count(v, s) > Count(w, s)
                        \/ Count(v, s) = Count(w, s) /\ FirstIndex(v, s) < FirstIndex(w, s)
         IN  << top >> \o ByCount(vals \ { top }, s)

\* Lines 221-226.
ChangefreqInsights(urls) ==
    LET changefreqs == TruthyOf(Field(urls, "changefreq"))
        order == ByCount(Range(changefreqs), changefreqs)
    IN  IF changefreqs = << >> THEN << >>
        ELSE << Msg("changefreq_header", 0, "", "") >>
             \o [i \in 1..Len(order) |-> Msg("changefreq", Count(order[i], changefreqs), order[i], "")]

AvgInsight(kind, stats) ==
    IF stats.values = << >> THEN << >> ELSE << Msg(kind, Mean2f(stats.values), "", "") >>

Outcome(raisedBy, recommendations, warnings, insights) ==
    [type |-> "analysis", raised |-> raisedBy, recommendations |-> recommendations,
     warnings |-> warnings, insights |-> insights]

Raised(exc) == Outcome(exc, << >>, << >>, << >>)

\* Lines 182-242 as a whole; resps are the network's answers to the fetches
\* of get_all_sitemap_urls (line 232), used for an index only.
analyze_seo(rd, sd, resps) ==
    LET recommendations == IF rd.type = "robots" THEN RobotsRecommendations(rd) ELSE << >>
        warnings == IF rd.type = "robots" THEN RobotsWarnings(rd) ELSE << >>
        fromRobots == IF rd.type = "robots" THEN RobotsInsights(rd) ELSE << >>
    IN  IF sd.type = "regular"
        THEN LET stats == PriorityStats(sd.urls)
             IN  IF stats.raised # None THEN Raised(stats.raised)
                 ELSE Outcome(None, recommendations, warnings,
                        fromRobots
                        \o << Msg("url_count", Len(sd.urls), "", "") >>
                        \o AvgInsight("avg_priority", stats)
                        \o LastmodInsights(sd.urls)
                        \o ChangefreqInsights(sd.urls))
        ELSE IF sd.type = "index"
        THEN LET found == get_all_sitemap_urls(sd, resps)
                 stats == PriorityStats(found)
             IN  IF found # << >> /\ stats.raised # None THEN Raised(stats.raised)
                 ELSE Outcome(None, recommendations, warnings,
                        fromRobots
                        \o << Msg("index_count", Len(sd.sitemaps), "", "") >>
                        \o (IF found = << >> THEN << >>
                            ELSE << Msg("total_urls", Len(found), "", "") >>
                                 \o AvgInsight("avg_priority_combined", stats)))
        ELSE Outcome(None, recommendations, warnings, fromRobots)

\* A faulty variant of AnalyzeRequests: a regular sitemap has each of its
\* locations requested as well.
AnalyzeRequests_always(sd, resps) ==
    IF sd.type = "index" THEN ResolveRequests(sd, resps)
    ELSE IF sd.type = "regular"
    THEN [i \in 1..Len(sd.urls) |-> << sd.urls[i].loc, Raises >>]
    ELSE << >>

\* The requests issued during analyze_seo: those of line 232, in the index
\* branch only.
AnalyzeRequests(sd, resps) ==
    IF sd.type = "index" THEN ResolveRequests(sd, resps) ELSE << >>

(***************************************************************************)
(* SpecRobots: parse_robots_txt run line by line on every text of at most  *)
(* MaxLines lines drawn from RobotsLines.                                  *)
(***************************************************************************)
Line(kind, val) == [kind |-> kind, val |-> val]

RobotsLines ==
    { Line("blank", ""), Line("comment", "note"), Line("other", "Host: example.com"),
      Line("user-agent", "*"), Line("user-agent", "bot"),
      Line("disallow", ""), Line("disallow", "/css/"), Line("disallow", "/b"),
      Line("allow", "/b"), Line("sitemap", "/sm.xml"), Line("crawl-delay", "5") }

RobotsTexts ==
    { Absent, EmptyText } \cup { Text(l) : l \in SeqsUpTo(RobotsLines, MaxLines) \ { << >> } }

\* The variables the robots parser does not touch.
PipelineIdle ==
    /\ url_input = None
    /\ sitemap_urls = << >>
    /\ probe_i = 0
    /\ child_i = 0
    /\ sitemap_content = NoBytes
    /\ sitemap_data = NoData
    /\ requests = << >>
    /\ all_urls = << >>
    /\ analysis = Unbound
    /\ raised = None

InitRobots ==
    /\ pc = "robots_begin"
    /\ robots_content \in RobotsTexts
    /\ robots_data = Unbound
    /\ current_ua = None
    /\ line_no = 0
    /\ PipelineIdle

\* Lines 40-52: the early return, else the fresh data and current_ua = '*'.
RobotsBegin ==
    /\ pc = "robots_begin"
    /\ IF robots_content.kind # "text"
       THEN /\ robots_data' = NoData
            /\ pc' = "robots_done"
            /\ UNCHANGED << current_ua, line_no >>
       ELSE /\ robots_data' = NewRobotsData
            /\ current_ua' = "*"
            /\ line_no' = 1
            /\ pc' = "robots_loop"
    /\ UNCHANGED << url_input, robots_content, sitemap_urls, probe_i, child_i, sitemap_content,
                    sitemap_data, requests, all_urls, analysis, raised >>

\* Lines 54-92: one iteration of the loop.
RobotsStep ==
    /\ pc = "robots_loop"
    /\ line_no <= Len(robots_content.lines)
    /\ LET st == RobotsLine([ua |-> current_ua, data |-> robots_data],
                            robots_content.lines[line_no])
       IN  /\ current_ua' = st.ua
           /\ robots_data' = st.data
    /\ line_no' = line_no + 1
    /\ UNCHANGED << pc, url_input, robots_content, sitemap_urls, probe_i, child_i, sitemap_content,
                    sitemap_data, requests, all_urls, analysis, raised >>

\* Line 94: return data.
RobotsReturn ==
    /\ pc = "robots_loop"
    /\ line_no > Len(robots_content.lines)
    /\ pc' = "robots_done"
    /\ UNCHANGED << url_input, robots_content, robots_data, current_ua, line_no,
                    sitemap_urls, probe_i, child_i, sitemap_content, sitemap_data, requests,
                    all_urls, analysis, raised >>

NextRobots == RobotsBegin \/ RobotsStep \/ RobotsReturn

SpecRobots == InitRobots /\ [][NextRobots]_vars

\* The lines of the text that the loop has already processed.
LinesDone == SubSeq(robots_content.lines, 1, line_no - 1)

\* The non-empty disallow: (resp. allow:) values processed before any
\* user-agent: line.
EarlyRuleValues(kind) ==
    { LinesDone[i].val : i \in { k \in 1..Len(LinesDone) :
        /\ LinesDone[k].kind = kind
        /\ LinesDone[k].val # ""
        /\ \A j \in 1..(k - 1) : LinesDone[j].kind # "user-agent" } }

\* C1: at every point of the parse, each agent's disallow (allow) list is a
\* subsequence of the flattened disallowed (allowed) list, and the flattened
\* list holds no value that is not recorded under some agent.
C1_PerAgentSubseqOfFlattened ==
    robots_data.type = "robots" =>
        /\ \A ua \in DOMAIN robots_data.user_agents :
              /\ IsSubseq(robots_data.user_agents[ua].disallow, robots_data.disallowed)
              /\ IsSubseq(robots_data.user_agents[ua].allow, robots_data.allowed)
        /\ Range(robots_data.disallowed) \subseteq
              UNION { Range(robots_data.user_agents[ua].disallow) :
                        ua \in DOMAIN robots_data.user_agents }
        /\ Range(robots_data.allowed) \subseteq
              UNION { Range(robots_data.user_agents[ua].allow) :
                        ua \in DOMAIN robots_data.user_agents }

\* A finished parse with two agents, each with a rule of its own, whose
\* rules interleave in the flattened list.
C1_Witness ==
    /\ pc = "robots_done"
    /\ robots_data.type = "robots"
    /\ DOMAIN robots_data.user_agents = { "*", "bot" }
    /\ robots_data.user_agents["*"].disallow = << "/css/" >>
    /\ robots_data.user_agents["bot"].disallow = << "/b" >>
    /\ robots_data.disallowed = << "/css/", "/b" >>

\* C2: once the parse is finished, every non-empty disallow/allow value that
\* came before any user-agent line is recorded under the agent "*" and in
\* the flattened list.
C2_EarlyRuleGoesToDefaultAgent ==
    (pc = "robots_done" /\ robots_data.type = "robots") =>
        /\ EarlyRuleValues("disallow") # {} =>
              /\ HasAgent(robots_data, "*")
              /\ EarlyRuleValues("disallow") \subseteq Range(robots_data.user_agents["*"].disallow)
              /\ EarlyRuleValues("disallow") \subseteq Range(robots_data.disallowed)
        /\ EarlyRuleValues("allow") # {} =>
              /\ HasAgent(robots_data, "*")
              /\ EarlyRuleValues("allow") \subseteq Range(robots_data.user_agents["*"].allow)
              /\ EarlyRuleValues("allow") \subseteq Range(robots_data.allowed)

(***************************************************************************)
(* SpecSitemap: parse_sitemap applied to every document of at most         *)
(* MaxChildren child elements drawn from SitemapElements.                  *)
(***************************************************************************)
SitemapElements ==
    { Element("url", "/p1", "2023-01-10", "daily", "0.8"),
      Element("url", "/p2", Missing, Missing, ""),
      Element("sitemap", "/child1.xml", Missing, Missing, Missing),
      Element("sitemap", "/child2.xml", "2023-03-01", Missing, Missing) }

SitemapDocs ==
    { NoBytes, EmptyBytes } \cup
    { Xml(m[1], m[2], root, ns, ch) :
        m \in { << TRUE, TRUE >>, << FALSE, TRUE >>, << FALSE, FALSE >> },
        root \in { "urlset", "sitemapindex", "html" },
        ns \in BOOLEAN,
        ch \in SeqsUpTo(SitemapElements, MaxChildren) }

SourceLabels == { None, "https://example.com/sitemap.xml" }

InitSitemap ==
    /\ pc = "parse_sitemap"
    /\ sitemap_content \in SitemapDocs
    /\ url_input \in SourceLabels      \* stands for the argument original_url
    /\ sitemap_data = Unbound
    /\ robots_content = Absent
    /\ robots_data = Unbound
    /\ current_ua = None
    /\ line_no = 0
    /\ sitemap_urls = << >>
    /\ probe_i = 0
    /\ child_i = 0
    /\ requests = << >>
    /\ all_urls = << >>
    /\ analysis = Unbound
    /\ raised = None

ParseSitemap ==
    /\ pc = "parse_sitemap"
    /\ sitemap_data' = parse_sitemap(sitemap_content, url_input)
    /\ pc' = "parse_sitemap_done"
    /\ UNCHANGED << url_input, robots_content, robots_data, current_ua, line_no,
                    sitemap_urls, probe_i, child_i, sitemap_content, requests, all_urls,
                    analysis, raised >>

NextSitemap == ParseSitemap

SpecSitemap == InitSitemap /\ [][NextSitemap]_vars

\* A parse result that lists something: an index with a loc, or a regular
\* sitemap with an entry.
HasEntries(r) ==
    \/ r.type = "index" /\ r.sitemaps # << >>
    \/ r.type = "regular" /\ r.urls # << >>

\* C4: a well-formed document in which the strict parse finds no url entry
\* gets the result of the tolerant parse whenever that one lists something;
\* so a well-formed sitemapindex with a loc gives an index of its loc values.
C4_FallbackOnZeroEntries ==
    (pc = "parse_sitemap_done" /\ Truthy(sitemap_content) /\ sitemap_content.wf
        /\ ETUrls(sitemap_content) = << >>
        /\ HasEntries(TolerantParse(sitemap_content, url_input))) =>
       sitemap_data = TolerantParse(sitemap_content, url_input)

\* C5: no parse ends with a regular sitemap that has no url entries.
C5_NoEmptyRegular ==
    pc = "parse_sitemap_done" =>
        ~(sitemap_data.type = "regular" /\ sitemap_data.urls = << >>)

(***************************************************************************)
(* The documents and the answers of the network used by SpecResolve,       *)
(* SpecAnalyze and Spec.                                                   *)
(***************************************************************************)
RegDocA ==
    Xml(TRUE, TRUE, "urlset", TRUE,
        << Element("url", "/p1", "2023-01-10", "daily", "0.8"),
           Element("url", "/p2", Missing, Missing, "") >>)
RegDocB ==
    Xml(TRUE, TRUE, "urlset", TRUE, << Element("url", "/p3", "2023-03-01", Missing, "0.4") >>)
RegDocBadPriority ==
    Xml(TRUE, TRUE, "urlset", TRUE, << Element("url", "/p4", Missing, Missing, "high") >>)
\* A sitemap index reaches the caller only through the tolerant branch.
IdxDoc ==
    Xml(FALSE, TRUE, "sitemapindex", TRUE,
        << Element("sitemap", "/child1.xml", Missing, Missing, Missing),
           Element("sitemap", "/child2.xml", Missing, Missing, Missing) >>)
HtmlDoc == Xml(TRUE, TRUE, "html", FALSE, << >>)

SitemapResponses ==
    { Raises, Response(404, HtmlDoc), Response(200, EmptyBytes), Response(200, HtmlDoc),
      Response(200, RegDocA), Response(200, RegDocB), Response(200, RegDocBadPriority),
      Response(200, IdxDoc) }

ChildLocs == { "/child1.xml", "/child2.xml" }

(***************************************************************************)
(* SpecResolve: get_all_sitemap_urls run child by child on a regular       *)
(* sitemap and on every index of at most MaxChildren children, the network *)
(* answering each fetch with any of SitemapResponses.                      *)
(***************************************************************************)
ResolveInputs ==
    { Regular(SoupUrls(RegDocA), None) } \cup
    { Index(ch, None) : ch \in SeqsUpTo(ChildLocs, MaxChildren) }

InitResolve ==
    /\ pc = "resolve_begin"
    /\ sitemap_data \in ResolveInputs
    /\ all_urls = << >>
    /\ child_i = 0
    /\ requests = << >>
    /\ url_input = None
    /\ robots_content = Absent
    /\ robots_data = Unbound
    /\ current_ua = None
    /\ line_no = 0
    /\ sitemap_urls = << >>
    /\ probe_i = 0
    /\ sitemap_content = NoBytes
    /\ analysis = Unbound
    /\ raised = None

\* Lines 168-172.
ResolveBegin ==
    /\ pc = "resolve_begin"
    /\ IF sitemap_data.type = "regular"
       THEN /\ all_urls' = sitemap_data.urls
            /\ pc' = "resolve_done"
            /\ UNCHANGED child_i
       ELSE /\ all_urls' = << >>
            /\ child_i' = 1
            /\ pc' = "resolve_loop"
    /\ UNCHANGED << url_input, robots_content, robots_data, current_ua, line_no,
                    sitemap_urls, probe_i, sitemap_content, sitemap_data, requests,
                    analysis, raised >>

\* Lines 173-178: one iteration of the loop over the children.
ResolveChild ==
    /\ pc = "resolve_loop"
    /\ child_i <= Len(sitemap_data.sitemaps)
    /\ \E resp \in SitemapResponses :
          /\ requests' = Append(requests, << sitemap_data.sitemaps[child_i], resp >>)
          /\ all_urls' = all_urls \o ChildUrls(sitemap_data.sitemaps[child_i], resp)
    /\ child_i' = child_i + 1
    /\ UNCHANGED << pc, url_input, robots_content, robots_data, current_ua, line_no,
                    sitemap_urls, probe_i, sitemap_content, sitemap_data, analysis,
                    raised >>

\* Line 180.
ResolveReturn ==
    /\ pc = "resolve_loop"
    /\ child_i > Len(sitemap_data.sitemaps)
    /\ pc' = "resolve_done"
    /\ UNCHANGED << url_input, robots_content, robots_data, current_ua, line_no,
                    sitemap_urls, probe_i, child_i, sitemap_content, sitemap_data,
                    requests, all_urls, analysis, raised >>

NextResolve == ResolveBegin \/ ResolveChild \/ ResolveReturn

SpecResolve == InitResolve /\ [][NextResolve]_vars

\* A logged request whose answer has status 200 and a body that parses as a
\* regular sitemap.
FetchedRegular(req) ==
    /\ req[2].outcome = "response"
    /\ req[2].status = 200
    /\ parse_sitemap(req[2].body, req[1]).type = "regular"

EntriesOf(req) ==
    IF FetchedRegular(req) THEN parse_sitemap(req[2].body, req[1]).urls ELSE << >>

\* C3: while and after an index is resolved, the children are requested in
\* list order, none is skipped after a failure, and the aggregate is the
\* concatenation of the entries of the children fetched and parsed as regular
\* sitemaps; its length is the sum of their entry counts.
C3_AggregateIsConcatOfRegularChildren ==
    (pc \in { "resolve_loop", "resolve_done" } /\ sitemap_data.type = "index") =>
        /\ Len(requests) = child_i - 1
        /\ \A i \in 1..Len(requests) : requests[i][1] = sitemap_data.sitemaps[i]
        /\ pc = "resolve_done" => Len(requests) = Len(sitemap_data.sitemaps)
        /\ all_urls = Flatten([i \in 1..Len(requests) |-> EntriesOf(requests[i])])
        /\ Len(all_urls) = SumSeq([i \in 1..Len(requests) |-> Len(EntriesOf(requests[i]))])

\* An index of two children resolved to the end: the first child failed to
\* fetch, the second gave a regular sitemap whose entries are the aggregate.
C3_Witness ==
    /\ pc = "resolve_done"
    /\ sitemap_data.type = "index"
    /\ Len(sitemap_data.sitemaps) = 2
    /\ Len(requests) = 2
    /\ requests[1][2] = Raises
    /\ requests[2][2] = Response(200, RegDocA)
    /\ Len(all_urls) = 2

(***************************************************************************)
(* SpecAnalyze: analyze_seo applied to absent or parsed robots data and to *)
(* an absent, regular (at most MaxUrls entries) or index sitemap.          *)
(***************************************************************************)
Entry(loc, lastmod, changefreq, priority) ==
    [loc |-> loc, lastmod |-> lastmod, changefreq |-> changefreq, priority |-> priority]

AnalyzeEntries ==
    { Entry("/a", None, "daily", "0.8"),
      Entry("/b", None, None, None),
      Entry("/c", None, "weekly", "0.4"),
      Entry("/d", None, None, ""),
      Entry("/e", None, None, "high"),
      Entry("/f", "2023-01-10", None, None),
      Entry("/g", "bad-date", None, None),
      Entry("/h", "2023-03-01", "weekly", None),
      Entry("/i", "2023-1-5", None, "0.40") }

AnalyzeRobots ==
    { NoData,
      parse_robots_txt(Text(<< Line("user-agent", "*"), Line("disallow", "/assets/private/"),
                               Line("crawl-delay", "5") >>)),
      parse_robots_txt(Text(<< Line("sitemap", "/sm.xml"), Line("user-agent", "bot"),
                               Line("disallow", "/js/app/img/"), Line("disallow", "/b") >>)) }

AnalyzeSitemaps ==
    { NoData } \cup
    { Regular(urls, None) : urls \in SeqsUpTo(AnalyzeEntries, MaxUrls) } \cup
    { Index(ch, None) : ch \in { << >>, << "/child1.xml" >>, << "/child1.xml", "/child2.xml" >> } }

InitAnalyze ==
    /\ pc = "analyze"
    /\ robots_data \in AnalyzeRobots
    /\ sitemap_data \in AnalyzeSitemaps
    /\ analysis = Unbound
    /\ requests = << >>
    /\ raised = None
    /\ url_input = None
    /\ robots_content = Absent
    /\ current_ua = None
    /\ line_no = 0
    /\ sitemap_urls = << >>
    /\ probe_i = 0
    /\ child_i = 0
    /\ sitemap_content = NoBytes
    /\ all_urls = << >>

\* The answers of the network to the fetches one call of analyze_seo makes.
AnswersFor(sd) ==
    IF sd.type = "index" THEN [1..Len(sd.sitemaps) -> SitemapResponses] ELSE { << >> }

\* One call of analyze_seo (lines 182-242), with the requests it issues.
CallAnalyze(next) ==
    \E resps \in AnswersFor(sitemap_data) :
        LET out == analyze_seo(robots_data, sitemap_data, resps)
        IN  /\ analysis' = out
            /\ raised' = out.raised
            /\ requests' = requests \o AnalyzeRequests(sitemap_data, resps)
            /\ pc' = IF out.raised = None THEN next ELSE "crashed"

Analyze ==
    /\ pc = "analyze"
    /\ CallAnalyze("analyze_done")
    /\ UNCHANGED << url_input, robots_content, robots_data, current_ua, line_no,
                    sitemap_urls, probe_i, child_i, sitemap_content, sitemap_data,
                    all_urls >>

NextAnalyze == Analyze

SpecAnalyze == InitAnalyze /\ [][NextAnalyze]_vars

Analyzed == pc \in { "analyze_done", "crashed" }

\* The priorities that float() accepts, in order, as hundredths.
NumericPriorities(urls) ==
    LET numeric == Keep(Field(urls, "priority"), DOMAIN FloatTable)
    IN  [i \in 1..Len(numeric) |-> FloatTable[numeric[i]]]

HasInsight(m) == \E i \in 1..Len(analysis.insights) : analysis.insights[i] = m

\* The entries analyze_seo averages over: those of the regular sitemap; for
\* an index, those of the children it has just fetched (the requests logged).
Averaged ==
    IF sitemap_data.type = "regular" THEN sitemap_data.urls
    ELSE Flatten([i \in 1..Len(requests) |-> EntriesOf(requests[i])])

\* C6: analyze_seo returns normally whatever the priority strings are, and
\* whenever some priority is numeric the mean over the numeric ones alone is
\* among the insights (regular and aggregate view).
C6_MeanOverNumericPriorities ==
    (Analyzed /\ sitemap_data.type \in { "regular", "index" }) =>
        /\ analysis.raised = None
        /\ NumericPriorities(Averaged) # << >> =>
              HasInsight(Msg(IF sitemap_data.type = "regular" THEN "avg_priority"
                             ELSE "avg_priority_combined",
                             Mean2f(NumericPriorities(Averaged)), "", ""))

\* The lastmod strings that strptime accepts, as dates.
ParsableDates(urls) ==
    LET good == Keep(Field(urls, "lastmod"), DOMAIN DateTable)
    IN  [i \in 1..Len(good) |-> DateTable[good[i]]]

\* C7: when analyze_seo returns for a regular sitemap with some parsable
\* lastmod, the insights give the oldest and the newest of the parsable dates.
C7_LastmodRangeOverParsable ==
    (pc = "analyze_done" /\ sitemap_data.type = "regular"
        /\ ParsableDates(sitemap_data.urls) # << >>) =>
        HasInsight(Msg("lastmod_range", 0,
                       strftime(MinDate(ParsableDates(sitemap_data.urls))),
                       strftime(MaxDate(ParsableDates(sitemap_data.urls)))))

UrlParse(url) ==
    CASE url = "https://example.com" -> [scheme |-> "https", netloc |-> "example.com"]
      [] url = "https://"            -> [scheme |-> "https", netloc |-> ""]
      [] OTHER                       -> [scheme |-> "", netloc |-> ""]

\* Lines 22-27.
is_valid_url(url) == UrlParse(url).scheme # "" /\ UrlParse(url).netloc # ""

\* urljoin(base, path) for a base without a path and an absolute path.
urljoin(base, path) == base \o path

\* Lines 29-37: the text on status 200, None on any other status or exception.
fetch_robots_txt(resp) ==
    IF resp.outcome = "response" /\ resp.status = 200 THEN resp.body ELSE Absent

\* Lines 298-304.
common_sitemaps ==
    << "/sitemap.xml", "/sitemap_index.xml", "/sitemap-index.xml", "/sitemap1.xml",
       "/sitemap_1.xml" >>

\* Lines 293-306, for robots_data bound.
Candidates(rd, url) ==
    IF rd.type = "robots" /\ rd.sitemaps # << >> THEN rd.sitemaps
    ELSE [i \in 1..Len(common_sitemaps) |-> urljoin(url, common_sitemaps[i])]

\* A faulty variant of ProbeStops: the loop is left as soon as a candidate is
\* fetched, parsed or not.
ProbeStops_onFetch(content, data) == Truthy(content)

\* Lines 312-316: the break, taken when the fetched content parsed.
ProbeStops(content, data) == Truthy(content) /\ data.type # "none"

UrlInputs == { "", "example.com", "https://", "https://example.com" }

RobotsResponses ==
    { [outcome |-> "exception", status |-> 0, body |-> Absent],
      Response(404, Text(<< Line("other", "Not Found") >>)),
      Response(200, EmptyText),
      Response(200, Text(<< Line("user-agent", "*"), Line("disallow", "/css/") >>)),
      Response(200, Text(<< Line("sitemap", "/sm1.xml"), Line("sitemap", "/sm2.xml"),
                            Line("sitemap", "/sm3.xml") >>)) }

PipelineResponses ==
    { Raises, Response(200, HtmlDoc), Response(200, RegDocA),
      Response(200, RegDocBadPriority), Response(200, IdxDoc) }

Init ==
    /\ pc = "input"
    /\ url_input \in UrlInputs
    /\ robots_content = Absent
    /\ robots_data = Unbound
    /\ current_ua = None
    /\ line_no = 0
    /\ sitemap_urls = << >>
    /\ probe_i = 0
    /\ child_i = 0
    /\ sitemap_content = NoBytes
    /\ sitemap_data = Unbound
    /\ requests = << >>
    /\ all_urls = << >>
    /\ analysis = Unbound
    /\ raised = None

\* Lines 247-250 and 392-393.
CheckUrl ==
    /\ pc = "input"
    /\ pc' = IF url_input = "" THEN "no_input"
             ELSE IF ~is_valid_url(url_input) THEN "invalid_url"
             ELSE "fetch_robots"
    /\ UNCHANGED << url_input, robots_content, robots_data, current_ua, line_no,
                    sitemap_urls, probe_i, child_i, sitemap_content, sitemap_data,
                    requests, all_urls, analysis, raised >>

\* Line 254.
FetchRobots ==
    /\ pc = "fetch_robots"
    /\ \E resp \in RobotsResponses :
          /\ robots_content' = fetch_robots_txt(resp)
          /\ requests' = Append(requests, << urljoin(url_input, "/robots.txt"), resp >>)
    /\ pc' = "parse_robots"
    /\ UNCHANGED << url_input, robots_data, current_ua, line_no, sitemap_urls, probe_i,
                    child_i, sitemap_content, sitemap_data, all_urls, analysis, raised >>

\* Lines 256-287: robots_data is assigned only when the content is truthy.
ParseRobots ==
    /\ pc = "parse_robots"
    /\ robots_data' = IF robots_content.kind = "text" THEN parse_robots_txt(robots_content)
                      ELSE robots_data
    /\ pc' = "candidates"
    /\ UNCHANGED << url_input, robots_content, current_ua, line_no, sitemap_urls, probe_i,
                    child_i, sitemap_content, sitemap_data, requests, all_urls, analysis,
                    raised >>

\* Lines 293-308: reading robots_data while it is unassigned raises NameError.
BuildCandidates ==
    /\ pc = "candidates"
    /\ IF robots_data.type = "unbound"
       THEN /\ raised' = "NameError"
            /\ pc' = "crashed"
            /\ UNCHANGED << sitemap_urls, sitemap_data, probe_i >>
       ELSE /\ sitemap_urls' = Candidates(robots_data, url_input)
            /\ sitemap_data' = NoData
            /\ probe_i' = 1
            /\ pc' = "probe"
            /\ UNCHANGED raised
    /\ UNCHANGED << url_input, robots_content, robots_data, current_ua, line_no, child_i,
                    sitemap_content, requests, all_urls, analysis >>

\* Lines 310-316: one iteration of the loop over the candidates.
ProbeStep ==
    /\ pc = "probe"
    /\ probe_i <= Len(sitemap_urls)
    /\ \E resp \in PipelineResponses :
          LET content == fetch_sitemap(resp)
              parsed == parse_sitemap(content, sitemap_urls[probe_i])
          IN  /\ requests' = Append(requests, << sitemap_urls[probe_i], resp >>)
              /\ sitemap_content' = IF Truthy(content) THEN content ELSE sitemap_content
              /\ sitemap_data' = IF Truthy(content) THEN parsed ELSE sitemap_data
              /\ pc' = IF ProbeStops(content, parsed) THEN "display" ELSE "probe"
    /\ probe_i' = probe_i + 1
    /\ UNCHANGED << url_input, robots_content, robots_data, current_ua, line_no,
                    sitemap_urls, child_i, all_urls, analysis, raised >>

\* Line 310: the candidates are used up.
ProbeExhausted ==
    /\ pc = "probe"
    /\ probe_i > Len(sitemap_urls)
    /\ pc' = "display"
    /\ UNCHANGED << url_input, robots_content, robots_data, current_ua, line_no,
                    sitemap_urls, probe_i, child_i, sitemap_content, sitemap_data,
                    requests, all_urls, analysis, raised >>

\* Lines 318-368: for an index, get_all_sitemap_urls is called (line 349).
Display ==
    /\ pc = "display"
    /\ \E resps \in AnswersFor(sitemap_data) :
          /\ all_urls' = IF sitemap_data.type = "index"
                         THEN get_all_sitemap_urls(sitemap_data, resps) ELSE all_urls
          /\ requests' = requests \o ResolveRequests(sitemap_data, resps)
    /\ pc' = "combined"
    /\ UNCHANGED << url_input, robots_content, robots_data, current_ua, line_no,
                    sitemap_urls, probe_i, child_i, sitemap_content, sitemap_data,
                    analysis, raised >>

\* Lines 373-391.
Combined ==
    /\ pc = "combined"
    /\ IF robots_data.type = "robots" \/ sitemap_data.type \in { "regular", "index" }
       THEN CallAnalyze("done")
       ELSE /\ pc' = "done"
            /\ UNCHANGED << analysis, raised, requests >>
    /\ UNCHANGED << url_input, robots_content, robots_data, current_ua, line_no,
                    sitemap_urls, probe_i, child_i, sitemap_content, sitemap_data,
                    all_urls >>

Next ==
    \/ CheckUrl
    \/ FetchRobots
    \/ ParseRobots
    \/ BuildCandidates
    \/ ProbeStep
    \/ ProbeExhausted
    \/ Display
    \/ Combined

Spec == Init /\ [][Next]_vars

\* The robots.txt request has been answered.
RobotsFetched == pc \notin { "input", "no_input", "invalid_url", "fetch_robots" }

\* C9: after a robots.txt fetch that yields absent the run raises nothing,
\* and once the candidates are built they are the fixed fallback list.
C9_AbsentRobotsDegradesToNoData ==
    (RobotsFetched /\ robots_content.kind # "text") =>
        /\ raised = None
        /\ pc # "crashed"
        /\ pc \in { "probe", "display", "combined", "done" } =>
              sitemap_urls = [i \in 1..Len(common_sitemaps) |->
                                 urljoin(url_input, common_sitemaps[i])]

\* The requests of the probing loop: those after the robots.txt request.
ProbeLog == SubSeq(requests, 2, probe_i)

\* A logged request whose answer has status 200 and a body that parses to a
\* document.
Qualifies(req) ==
    /\ req[2].outcome = "response"
    /\ req[2].status = 200
    /\ Truthy(req[2].body)
    /\ parse_sitemap(req[2].body, req[1]).type # "none"

\* C10: the candidates are requested in list order; every request before
\* the last one failed to fetch or to parse; the loop is left either with
\* the parse result of the last candidate requested, which then is the first
\* one that fetched and parsed, or with no document after all candidates were
\* requested and none qualified; once the loop is left no candidate is
\* requested again.
C10_FirstParseableCandidateWins ==
    pc \in { "probe", "display", "combined", "done" } =>
        /\ probe_i - 1 <= Len(sitemap_urls)
        /\ Len(requests) >= probe_i
        /\ pc \in { "probe", "display" } => Len(requests) = probe_i
        /\ \A i \in 1..Len(ProbeLog) : ProbeLog[i][1] = sitemap_urls[i]
        /\ \A i \in 1..(Len(ProbeLog) - 1) : ~Qualifies(ProbeLog[i])
        /\ pc = "probe" =>
              /\ sitemap_data.type = "none"
              /\ \A i \in 1..Len(ProbeLog) : ~Qualifies(ProbeLog[i])
        /\ pc # "probe" =>
              \/ /\ ProbeLog # << >>
                 /\ Qualifies(ProbeLog[Len(ProbeLog)])
                 /\ sitemap_data = parse_sitemap(ProbeLog[Len(ProbeLog)][2].body,
                                                 ProbeLog[Len(ProbeLog)][1])
              \/ /\ sitemap_data.type = "none"
                 /\ Len(ProbeLog) = Len(sitemap_urls)
                 /\ \A i \in 1..Len(ProbeLog) : ~Qualifies(ProbeLog[i])

\* The loop is left at the third of five candidates: the first did not
\* fetch, the second fetched but did not parse, the third parsed.
C10_Witness ==
    /\ pc = "display"
    /\ Len(sitemap_urls) = 5
    /\ Len(ProbeLog) = 3
    /\ ProbeLog[1][2] = Raises
    /\ ProbeLog[2][2] = Response(200, HtmlDoc)
    /\ ProbeLog[3][2] = Response(200, RegDocA)
    /\ sitemap_data.type = "regular"

====
